---- MODULE Spec2Model ----
(***************************************************************************)
(* A model of the FASTA fragment assembler: fragment.py (Fragment and      *)
(* Sequence, a singly-linked list of fragments) and fasta.py (the driver:  *)
(* ingestion of the fragments of the input file, then the merge loop).     *)
(*                                                                         *)
(* Python objects live in two heaps: `fragments` holds the Fragment        *)
(* objects, `seqobjs` the Sequence objects; a reference is an index into   *)
(* the heap and NoRef stands for None.  A string is a sequence of one-     *)
(* character strings.                                                      *)
(***************************************************************************)
EXTENDS Integers, Sequences, FiniteSets, TLC

(***************************************************************************)
(* Bounds of the model.                                                    *)
(***************************************************************************)
\* the largest number of fragments in the input file
MaxFrags == 4
\* the longest string handed to find_overlap in the specification SpecOverlap
MaxStrLen == 4
\* the largest max_width handed to flatten in the specification SpecFlatten
MaxWidth == 4

NoRef == 0
\* the offset a new Fragment starts with
DefaultOffset == -1
\* the width the driver hands to flatten
PrintWidth == 60

\* what find_overlap returns for "no overlap" (None)
None == [my_index |-> -1, their_index |-> -1]

(***************************************************************************)
(* Strings.                                                                *)
(***************************************************************************)
Rep(c, n) == [k \in 1..n |-> c]

Min(a, b) == IF a < b THEN a ELSE b

\* data[:n] for n >= 0
Prefix(data, n) == SubSeq(data, 1, Min(n, Len(data)))

\* every non-empty substring of s
Substrings(s) ==
    {SubSeq(s, p[1], p[2]) : p \in {q \in (1..Len(s)) \X (1..Len(s)) : q[1] <= q[2]}}

\* str.find: the zero-based index of the first occurrence of sub in s
\* (sub occurs in s wherever the code calls it)
Find(s, sub) ==
    LET occ == {k \in 1..(Len(s) - Len(sub) + 1) : SubSeq(s, k, k + Len(sub) - 1) = sub}
    IN  (CHOOSE k \in occ : \A m \in occ : k <= m) - 1

\* SuffixTree.find_longest_common_substrings for the two strings appended:
\* the common substrings of maximal length (the suffix tree is a library, it
\* is modelled by what it returns)
LongestCommonSubstrings(a, b) ==
    LET common == Substrings(a) \cap Substrings(b)
    IN  {s \in common : \A t \in common : Len(t) <= Len(s)}

(***************************************************************************)
(* Fragment.find_overlap                                                   *)
(***************************************************************************)
\* a variant of OverThreshold with >= for >
AtThreshold(substring_length, self_length) == 2 * substring_length >= self_length

\* substring_length / float(len(self.data)) > 0.5
OverThreshold(substring_length, self_length) == 2 * substring_length > self_length

\* lines 67-72, for the one longest common substring s
OverlapOf(self_data, data, s) ==
    IF OverThreshold(Len(s), Len(self_data))
    THEN [my_index |-> Find(self_data, s), their_index |-> Find(data, s)]
    ELSE None

\* lines 66-72, for the list lcs the suffix tree returned
OverlapFrom(self_data, data, lcs) ==
    IF Cardinality(lcs) = 1
    THEN OverlapOf(self_data, data, CHOOSE s \in lcs : TRUE)
    ELSE None

find_overlap(self_data, data) ==
    OverlapFrom(self_data, data, LongestCommonSubstrings(self_data, data))

(***************************************************************************)
(* Fragment and Sequence objects.  F is the heap of Fragment objects, Q    *)
(* the heap of Sequence objects; an operation returns the heaps it leaves  *)
(* and its result.                                                         *)
(***************************************************************************)
\* Fragment.__init__ followed by set_offset
Fragment(data, offset) == [data |-> data, next_fragment |-> NoRef, offset |-> offset]

\* Sequence.__init__ with no first fragment
Sequence == [head |-> NoRef, tail |-> NoRef, _length |-> 0]

\* Sequence.append; the new Fragment is the next cell of the heap
append(F, Q, self, data, offset) ==
    [fragments |->
        IF Q[self]._length = 0
        THEN Append(F, Fragment(data, offset))
        ELSE [Append(F, Fragment(data, offset))
                  EXCEPT ![Q[self].tail].next_fragment = Len(F) + 1],
     seqobjs |->
        [Q EXCEPT ![self] =
            [head |-> IF Q[self]._length = 0 THEN Len(F) + 1 ELSE Q[self].head,
             tail |-> Len(F) + 1,
             _length |-> Q[self]._length + 1]]]

\* previous.set_next(new_fragment) under `if previous` (lines 136-137)
LinkPrevious(F, previous, new_fragment) ==
    IF previous # NoRef
    THEN [F EXCEPT ![previous].next_fragment = new_fragment]
    ELSE F

\* a variant of InsertBefore that takes my_index for the offset
InsertBeforeMyIndex(F, Q, self, current, previous, data, overlap) ==
    [fragments |->
        LinkPrevious(Append(F, [data |-> data, next_fragment |-> current,
                                offset |-> overlap.my_index]),
                     previous, Len(F) + 1),
     seqobjs |-> [Q EXCEPT ![self].head = Len(F) + 1,
                           ![self]._length = Q[self]._length + 1],
     found |-> TRUE]

\* insert_if_overlaps, the branch for their_index > 0 (lines 135-141)
InsertBefore(F, Q, self, current, previous, data, overlap) ==
    [fragments |->
        LinkPrevious(Append(F, [data |-> data, next_fragment |-> current,
                                offset |-> overlap.their_index]),
                     previous, Len(F) + 1),
     seqobjs |-> [Q EXCEPT ![self].head = Len(F) + 1,
                           ![self]._length = Q[self]._length + 1],
     found |-> TRUE]

\* a variant of InsertAfter that leaves the tail where it was
InsertAfterKeepsTail(F, Q, self, current, data, overlap) ==
    [fragments |->
        [Append(F, [data |-> data, next_fragment |-> F[current].next_fragment,
                    offset |-> DefaultOffset])
            EXCEPT ![current].next_fragment = Len(F) + 1,
                   ![current].offset = overlap.my_index],
     seqobjs |-> [Q EXCEPT ![self]._length = Q[self]._length + 1],
     found |-> TRUE]

\* insert_if_overlaps, the branch for my_index > 0 (lines 142-147)
InsertAfter(F, Q, self, current, data, overlap) ==
    [fragments |->
        [Append(F, [data |-> data, next_fragment |-> F[current].next_fragment,
                    offset |-> DefaultOffset])
            EXCEPT ![current].next_fragment = Len(F) + 1,
                   ![current].offset = overlap.my_index],
     seqobjs |-> [Q EXCEPT ![self].tail = Len(F) + 1,
                           ![self]._length = Q[self]._length + 1],
     found |-> TRUE]

\* lines 131-147, for the overlap find_overlap returned (a Fragment made at
\* line 133 and linked by neither branch is dropped)
InsertWith(F, Q, self, current, previous, data, overlap) ==
    IF overlap = None
    THEN [fragments |-> F, seqobjs |-> Q, found |-> FALSE]
    ELSE IF overlap.their_index > 0
         THEN InsertBefore(F, Q, self, current, previous, data, overlap)
         ELSE IF overlap.my_index > 0
              THEN InsertAfter(F, Q, self, current, data, overlap)
              ELSE [fragments |-> F, seqobjs |-> Q, found |-> TRUE]

\* one pass of the while loop of insert_if_overlaps, for the fragment `current`
InsertStep(F, Q, self, current, previous, data) ==
    IF F[current].data # data
    THEN InsertWith(F, Q, self, current, previous, data,
                    find_overlap(F[current].data, data))
    ELSE [fragments |-> F, seqobjs |-> Q, found |-> FALSE]

RECURSIVE InsertScan(_, _, _, _, _, _, _)
\* lines 149-150 after the pass that left st
InsertAdvance(st, self, current, has_at_least_one_overlap, data) ==
    InsertScan(st.fragments, st.seqobjs, self, st.fragments[current].next_fragment,
               current, has_at_least_one_overlap \/ st.found, data)

\* the while loop of insert_if_overlaps
InsertScan(F, Q, self, current, previous, has_at_least_one_overlap, data) ==
    IF current = NoRef
    THEN [fragments |-> F, seqobjs |-> Q, result |-> has_at_least_one_overlap]
    ELSE InsertAdvance(InsertStep(F, Q, self, current, previous, data),
                       self, current, has_at_least_one_overlap, data)

\* Sequence.insert_if_overlaps
insert_if_overlaps(F, Q, self, data) ==
    InsertScan(F, Q, self, Q[self].head, NoRef, FALSE, data)

RECURSIVE MergeScan(_, _, _, _)
\* line 161 after the append that left st
MergeAdvance(st, first, current) ==
    MergeScan(st.fragments, st.seqobjs, first, st.fragments[current].next_fragment)

\* the while loop of merge
MergeScan(F, Q, first, current) ==
    IF current = NoRef
    THEN [fragments |-> F, seqobjs |-> Q, result |-> first]
    ELSE MergeAdvance(append(F, Q, first, F[current].data, F[current].offset),
                      first, current)

\* Sequence.merge (static): `offset` is not used
merge(F, Q, first, second, offset) == MergeScan(F, Q, first, Q[second].head)

\* lines 175-183, for the overlaps the two calls of find_overlap return
MergeWith(F, Q, self, other_sequence, head_overlap, tail_overlap) ==
    IF head_overlap # None
    THEN merge(F, Q, other_sequence, self, head_overlap.their_index)
    ELSE IF tail_overlap # None
         THEN merge(F, Q, self, other_sequence, tail_overlap.my_index)
         ELSE [fragments |-> F, seqobjs |-> Q, result |-> NoRef]

\* Sequence.merge_if_overlaps: result is the merged Sequence, or NoRef for None
merge_if_overlaps(F, Q, self, other_sequence) ==
    MergeWith(F, Q, self, other_sequence,
              find_overlap(F[Q[self].head].data, F[Q[other_sequence].tail].data),
              find_overlap(F[Q[self].tail].data, F[Q[other_sequence].head].data))

\* what a fragment adds to the flattened text (lines 205-208)
Contribution(fragment) ==
    IF fragment.offset > 0
    THEN Prefix(fragment.data, fragment.offset)
    ELSE fragment.data

\* the first loop of flatten: the concatenation of the fragments' contributions
RECURSIVE FlattenScan(_, _, _)
FlattenScan(F, current, out) ==
    IF current = NoRef
    THEN out
    ELSE FlattenScan(F, F[current].next_fragment, out \o Contribution(F[current]))

\* a variant of Chunk that leaves out a last piece shorter than max_width
RECURSIVE ChunkWhole(_, _, _, _)
ChunkWhole(out, index, max_width, line_termination) ==
    IF index + max_width > Len(out)
    THEN << >>
    ELSE SubSeq(out, index + 1, index + max_width) \o line_termination
             \o ChunkWhole(out, index + max_width, max_width, line_termination)

\* the second loop of flatten: the pieces out[index:index+max_width], each
\* followed by line_termination, for index in range(0, len(out), max_width)
RECURSIVE Chunk(_, _, _, _)
Chunk(out, index, max_width, line_termination) ==
    IF index >= Len(out)
    THEN << >>
    ELSE SubSeq(out, index + 1, Min(index + max_width, Len(out))) \o line_termination
             \o Chunk(out, index + max_width, max_width, line_termination)

\* lines 210-218, for the concatenation out
Wrap(out, max_width, line_termination) ==
    IF max_width > 0 THEN Chunk(out, 0, max_width, line_termination) ELSE out

\* Sequence.flatten
flatten(F, Q, self, max_width, line_termination) ==
    Wrap(FlattenScan(F, Q[self].head, << >>), max_width, line_termination)

(***************************************************************************)
(* The driver, fasta.py.                                                   *)
(***************************************************************************)
VARIABLES
    input,          \* the fragment strings of the input file, in file order
    nread,          \* how many of them have been ingested
    fragments,      \* the heap of Fragment objects
    seqobjs,        \* the heap of Sequence objects
    sequences,      \* the list `sequences`: references to Sequence objects
    pc,             \* the driver's position
    i, i_stop,      \* the outer for loop: its index and the stop of its range
    j, j_stop,      \* the inner for loop: its index and the stop of its range
    previous_size,
    output,         \* what has been printed
    round,          \* history: the number of rounds of the while loop started
    attempted,      \* history: the index pairs handed to merge_if_overlaps this round
    after_merge,    \* history: a merge was done and no pair was examined since
    scanned,        \* history: the chains the last ingest called insert_if_overlaps on
    fo_self, fo_data, fo_called, fo_result,  \* a call of find_overlap (SpecOverlap)
    fl_out, fl_width, fl_term, fl_called, fl_result  \* a call of flatten (SpecFlatten)

vars == <<input, nread, fragments, seqobjs, sequences, pc, i, i_stop, j, j_stop,
          previous_size, output, round, attempted, after_merge, scanned,
          fo_self, fo_data, fo_called, fo_result,
          fl_out, fl_width, fl_term, fl_called, fl_result>>

loop_vars == <<i, i_stop, j, j_stop, previous_size, round, attempted, after_merge>>
fo_vars == <<fo_self, fo_data, fo_called, fo_result>>
fl_vars == <<fl_out, fl_width, fl_term, fl_called, fl_result>>

\* list.remove: drop the first element equal to x
Remove(list, x) ==
    LET k == CHOOSE n \in 1..Len(list) : list[n] = x /\ \A m \in 1..(n - 1) : list[m] # x
    IN  SubSeq(list, 1, k - 1) \o SubSeq(list, k + 1, Len(list))

RECURSIVE InsertInSequences(_, _, _, _, _)
\* a variant of InsertTried without the break of line 51
InsertTriedNoBreak(r, list, k, fragment) ==
    IF k >= Len(list)
    THEN [fragments |-> r.fragments, seqobjs |-> r.seqobjs, inserted |-> r.result,
          scanned |-> k]
    ELSE InsertInSequences(r.fragments, r.seqobjs, list, k + 1, fragment)

\* lines 49-51, for what insert_if_overlaps returned for sequences[k-1]
InsertTried(r, list, k, fragment) ==
    IF r.result
    THEN [fragments |-> r.fragments, seqobjs |-> r.seqobjs, inserted |-> TRUE,
          scanned |-> k]
    ELSE InsertInSequences(r.fragments, r.seqobjs, list, k + 1, fragment)

\* the for loop of insert_fragment_in_place from index k on (k counts from 1)
InsertInSequences(F, Q, list, k, fragment) ==
    IF k > Len(list)
    THEN [fragments |-> F, seqobjs |-> Q, inserted |-> FALSE, scanned |-> Len(list)]
    ELSE InsertTried(insert_if_overlaps(F, Q, list[k], fragment), list, k, fragment)

\* a variant of NewSequence that does not put the new Sequence in the list
NewSequenceUnlisted(F, Q, list, fragment) ==
    append(F, Append(Q, Sequence), Len(Q) + 1, fragment, DefaultOffset)
        @@ [sequences |-> list]

\* lines 56-58: a new Sequence holding the fragment joins the list
NewSequence(F, Q, list, fragment) ==
    append(F, Append(Q, Sequence), Len(Q) + 1, fragment, DefaultOffset)
        @@ [sequences |-> Append(list, Len(Q) + 1)]

\* lines 54-61, for what the for loop left
InsertOrCreate(r, list, fragment) ==
    IF r.inserted
    THEN [fragments |-> r.fragments, seqobjs |-> r.seqobjs, sequences |-> list,
          scanned |-> r.scanned]
    ELSE NewSequence(r.fragments, r.seqobjs, list, fragment)
             @@ [scanned |-> r.scanned]

\* insert_fragment_in_place
insert_fragment_in_place(F, Q, list, fragment) ==
    InsertOrCreate(InsertInSequences(F, Q, list, 1, fragment), list, fragment)

\* a variant of ReplaceMerged that leaves `sequence` in the list
ReplaceMergedKeepsOne(list, sequence, other, merged_list) ==
    Append(Remove(list, other), merged_list)

\* the replacement of the two merged sequences by the merged one (lines 103-105)
ReplaceMerged(list, sequence, other, merged_list) ==
    Append(Remove(Remove(list, other), sequence), merged_list)

\* a variant of IsStuck with >= for ==
IsStuckNotSmaller(previous, size) == previous >= size

\* the test that ends the run as stuck (line 110)
IsStuck(previous, size) == previous = size

\* a variant of AfterMergeIndex that starts the scan again from the top
AfterMergeFromTop(outer) == 0

\* where the outer loop goes after a merge (the break of line 106 leaves the
\* inner loop only)
AfterMergeIndex(outer) == outer + 1

(***************************************************************************)
(* The input files of the model: the fragment strings the file loop builds,*)
(* in file order.  A file may hold no fragment at all and may hold a       *)
(* fragment more than once; every fragment string is non-empty (a blank    *)
(* line, which makes the empty fragment, is left out).                     *)
(***************************************************************************)
AAB == <<"A", "A", "B">>
ABB == <<"A", "B", "B">>
BBC == <<"B", "B", "C">>
BAB == <<"B", "A", "B">>
AB  == <<"A", "B">>
Pool == {AAB, ABB, BBC, BAB, AB}

Example1 == << Rep("A", 3) \o Rep("B", 5), Rep("B", 5) \o Rep("C", 3) >>
Example2 == << Rep("A", 4) \o Rep("B", 4), Rep("B", 4) \o Rep("C", 4) >>
Example3 == << Rep("A", 4) \o Rep("B", 5), Rep("B", 5) \o Rep("C", 5),
               Rep("C", 5) \o Rep("D", 4) >>

Inputs == UNION {[1..n -> Pool] : n \in 0..MaxFrags} \cup {Example1, Example2, Example3}

Alphabet == {"A", "B"}
Strings == UNION {[1..n -> Alphabet] : n \in 1..MaxStrLen}
Pairs == (Strings \X Strings) \cup {<<Example2[1], Example2[2]>>}

LineTermination == <<"\n">>
\* the line terminations handed to flatten in the specification SpecFlatten
LineTerminations == {LineTermination, <<"\r", "\n">>}

(***************************************************************************)
(* The run: the file is read and each fragment ingested, then the merge    *)
(* loop, then the print.                                                   *)
(***************************************************************************)
InitRun ==
    /\ nread = 0
    /\ fragments = << >>
    /\ seqobjs = << >>
    /\ sequences = << >>
    /\ pc = "ingest"
    /\ i = 0 /\ i_stop = 0 /\ j = 0 /\ j_stop = 0
    /\ previous_size = 0
    /\ output = << >>
    /\ round = 0
    /\ attempted = {}
    /\ after_merge = FALSE
    /\ scanned = 0

\* no call of flatten besides the one of the print
NoFlatten ==
    /\ fl_out = << >> /\ fl_width = 0 /\ fl_term = LineTermination
    /\ fl_called = TRUE /\ fl_result = << >>

Init ==
    /\ input \in Inputs
    /\ InitRun
    /\ fo_self = << >> /\ fo_data = << >> /\ fo_called = TRUE /\ fo_result = None
    /\ NoFlatten

\* the state an ingest leaves, r being what insert_fragment_in_place returned
Ingested(r) ==
    /\ fragments' = r.fragments
    /\ seqobjs' = r.seqobjs
    /\ sequences' = r.sequences
    /\ scanned' = r.scanned

\* lines 70-76: the next fragment of the file is complete and ingested
Ingest ==
    /\ pc = "ingest"
    /\ nread < Len(input)
    /\ Ingested(insert_fragment_in_place(fragments, seqobjs, sequences, input[nread + 1]))
    /\ nread' = nread + 1
    /\ UNCHANGED <<input, pc, output, loop_vars, fo_vars, fl_vars>>

\* line 88: the file is exhausted
StartAssemble ==
    /\ pc = "ingest"
    /\ nread = Len(input)
    /\ previous_size' = Len(sequences)
    /\ pc' = "while"
    /\ UNCHANGED <<input, nread, fragments, seqobjs, sequences, i, i_stop, j, j_stop,
                   output, round, attempted, after_merge, scanned, fo_vars, fl_vars>>

\* lines 89-91: the while test holds; range(0, len(sequences)-1) is computed
RoundStart ==
    /\ pc = "while"
    /\ Len(sequences) > 1
    /\ i' = 0
    /\ i_stop' = Len(sequences) - 1
    /\ round' = round + 1
    /\ attempted' = {}
    /\ pc' = "for_i"
    /\ UNCHANGED <<input, nread, fragments, seqobjs, sequences, j, j_stop,
                   previous_size, output, after_merge, scanned, fo_vars, fl_vars>>

\* lines 96-99: the outer loop takes sequences[i]; range(i+1, len(sequences))
OuterEnter ==
    /\ pc = "for_i"
    /\ i < i_stop
    /\ ~(i > Len(sequences) - 1)
    /\ j' = i + 1
    /\ j_stop' = Len(sequences)
    /\ pc' = "for_j"
    /\ UNCHANGED <<input, nread, fragments, seqobjs, sequences, i, i_stop,
                   previous_size, output, round, attempted, after_merge, scanned, fo_vars, fl_vars>>

\* lines 91 and 96-97: the outer range is exhausted, or the break of line 97
OuterExit ==
    /\ pc = "for_i"
    /\ (i >= i_stop \/ i > Len(sequences) - 1)
    /\ pc' = "round_end"
    /\ UNCHANGED <<input, nread, fragments, seqobjs, sequences, i, i_stop, j, j_stop,
                   previous_size, output, round, attempted, after_merge, scanned, fo_vars, fl_vars>>

\* lines 102-106, r being what merge_if_overlaps returned
Merged(r, sequence, other) ==
    /\ r.result # NoRef
    /\ fragments' = r.fragments
    /\ seqobjs' = r.seqobjs
    /\ sequences' = ReplaceMerged(sequences, sequence, other, r.result)

\* lines 100-106: a pair is examined and merged
MergePair ==
    /\ pc = "for_j"
    /\ j < j_stop
    /\ Merged(merge_if_overlaps(fragments, seqobjs, sequences[i + 1], sequences[j + 1]),
              sequences[i + 1], sequences[j + 1])
    /\ attempted' = attempted \cup {<<i, j>>}
    /\ after_merge' = TRUE
    /\ i' = AfterMergeIndex(i)
    /\ pc' = "for_i"
    /\ UNCHANGED <<input, nread, i_stop, j, j_stop, previous_size, output, round,
                   scanned, fo_vars, fl_vars>>

\* lines 100-102 and 107-108: a pair is examined and does not merge
NoMatch ==
    /\ pc = "for_j"
    /\ j < j_stop
    /\ merge_if_overlaps(fragments, seqobjs, sequences[i + 1], sequences[j + 1]).result
           = NoRef
    /\ attempted' = attempted \cup {<<i, j>>}
    /\ after_merge' = FALSE
    /\ j' = j + 1
    /\ UNCHANGED <<input, nread, fragments, seqobjs, sequences, pc, i, i_stop, j_stop,
                   previous_size, output, round, scanned, fo_vars, fl_vars>>

\* line 99: the inner range is exhausted
InnerExit ==
    /\ pc = "for_j"
    /\ j >= j_stop
    /\ i' = i + 1
    /\ pc' = "for_i"
    /\ UNCHANGED <<input, nread, fragments, seqobjs, sequences, i_stop, j, j_stop,
                   previous_size, output, round, attempted, after_merge, scanned, fo_vars, fl_vars>>

\* lines 110-115: no merge was done in the round
Stuck ==
    /\ pc = "round_end"
    /\ IsStuck(previous_size, Len(sequences))
    /\ pc' = "stuck"
    /\ UNCHANGED <<input, nread, fragments, seqobjs, sequences, i, i_stop, j, j_stop,
                   previous_size, output, round, attempted, after_merge, scanned, fo_vars, fl_vars>>

\* lines 116-117
RoundEnd ==
    /\ pc = "round_end"
    /\ ~IsStuck(previous_size, Len(sequences))
    /\ previous_size' = Len(sequences)
    /\ pc' = "while"
    /\ UNCHANGED <<input, nread, fragments, seqobjs, sequences, i, i_stop, j, j_stop,
                   output, round, attempted, after_merge, scanned, fo_vars, fl_vars>>

\* line 120 with one sequence or more left
PrintResult ==
    /\ pc = "while"
    /\ Len(sequences) = 1
    /\ output' = Append(output, flatten(fragments, seqobjs, sequences[1], PrintWidth,
                                        LineTermination))
    /\ pc' = "done"
    /\ UNCHANGED <<input, nread, fragments, seqobjs, sequences, loop_vars, scanned,
                   fo_vars, fl_vars>>

\* line 120 with no sequence: sequences[0] raises IndexError
PrintFails ==
    /\ pc = "while"
    /\ Len(sequences) = 0
    /\ pc' = "crashed"
    /\ UNCHANGED <<input, nread, fragments, seqobjs, sequences, output, loop_vars,
                   scanned, fo_vars, fl_vars>>

\* the steps of a run on a file that holds a fragment at least
RunStep ==
    \/ Ingest
    \/ StartAssemble
    \/ RoundStart
    \/ OuterEnter
    \/ OuterExit
    \/ MergePair
    \/ NoMatch
    \/ InnerExit
    \/ Stuck
    \/ RoundEnd
    \/ PrintResult

Next ==
    \/ RunStep
    \/ PrintFails

Spec == Init /\ [][Next]_vars

\* the states of the run as the design names them
Phase ==
    CASE pc = "ingest" -> "INGESTING"
      [] pc \in {"while", "for_i", "for_j", "round_end"} -> "MERGING"
      [] pc = "done" -> "DONE"
      [] pc = "stuck" -> "STUCK"
      [] OTHER -> "CRASHED"

(***************************************************************************)
(* find_overlap on its own: fo_self is the data of the fragment that       *)
(* checks, fo_data the data handed to it; the file holding the two strings *)
(* is then run as well.                                                    *)
(***************************************************************************)
InitOverlap ==
    /\ \E p \in Pairs : fo_self = p[1] /\ fo_data = p[2]
    /\ fo_called = FALSE
    /\ fo_result = None
    /\ input = <<fo_self, fo_data>>
    /\ InitRun
    /\ NoFlatten

CallFindOverlap ==
    /\ ~fo_called
    /\ fo_result' = find_overlap(fo_self, fo_data)
    /\ fo_called' = TRUE
    /\ UNCHANGED <<input, nread, fragments, seqobjs, sequences, pc, output, loop_vars,
                   scanned, fo_self, fo_data, fl_vars>>

NextOverlap ==
    \/ CallFindOverlap
    \/ RunStep

SpecOverlap == InitOverlap /\ [][NextOverlap]_vars

(***************************************************************************)
(* flatten on its own: the run of a file that holds a fragment at least is *)
(* followed by a call of flatten, with any max_width up to MaxWidth and    *)
(* either line termination, on a sequence the run left.  fl_out is the     *)
(* string `out` the first loop of flatten builds.                          *)
(***************************************************************************)
InitFlatten ==
    /\ input \in Inputs
    /\ Len(input) > 0
    /\ InitRun
    /\ fo_self = << >> /\ fo_data = << >> /\ fo_called = TRUE /\ fo_result = None
    /\ fl_out = << >> /\ fl_width = 0 /\ fl_term = LineTermination
    /\ fl_called = FALSE /\ fl_result = << >>

CallFlatten ==
    /\ ~fl_called
    /\ pc \in {"done", "stuck"}
    /\ \E k \in DOMAIN sequences : \E max_width \in 0..MaxWidth :
       \E line_termination \in LineTerminations :
          /\ fl_out' = FlattenScan(fragments, seqobjs[sequences[k]].head, << >>)
          /\ fl_width' = max_width
          /\ fl_term' = line_termination
          /\ fl_result' = flatten(fragments, seqobjs, sequences[k], max_width,
                                  line_termination)
    /\ fl_called' = TRUE
    /\ UNCHANGED <<input, nread, fragments, seqobjs, sequences, pc, output, loop_vars,
                   scanned, fo_vars>>

NextFlatten ==
    \/ CallFlatten
    \/ RunStep

SpecFlatten == InitFlatten /\ [][NextFlatten]_vars

(***************************************************************************)
(* Views of the heap used by the properties.                               *)
(***************************************************************************)
\* the Fragment objects reached from `current` by following next_fragment
RECURSIVE Cells(_, _)
Cells(F, current) ==
    IF current = NoRef THEN << >> ELSE <<current>> \o Cells(F, F[current].next_fragment)

\* the fragments of the Sequence object q, from its head on
ChainCells(F, q) == Cells(F, q.head)

Last(list) == list[Len(list)]

\* the data, and the data and offset, of the fragments of Sequence `self`
DataOf(F, Q, self) == [k \in DOMAIN ChainCells(F, Q[self]) |-> F[ChainCells(F, Q[self])[k]].data]
ItemsOf(F, Q, self) ==
    [k \in DOMAIN ChainCells(F, Q[self]) |->
        <<F[ChainCells(F, Q[self])[k]].data, F[ChainCells(F, Q[self])[k]].offset>>]

\* the text of the sequence, not wrapped
Text(F, Q, self) == flatten(F, Q, self, 0, LineTermination)

(***************************************************************************)
(* Properties.                                                             *)
(***************************************************************************)
\* the underlying sequences the input files of the model can be windows of
S0 == <<"A", "A", "B", "B", "C">>
Targets == {S0,
            Rep("A", 3) \o Rep("B", 5) \o Rep("C", 3),
            Rep("A", 4) \o Rep("B", 5) \o Rep("C", 5) \o Rep("D", 4)}

\* f is the window of S that starts at position q
WindowAt(f, S, q) == q + Len(f) - 1 <= Len(S) /\ SubSeq(S, q, q + Len(f) - 1) = f

\* the fragments of the file are pairwise distinct windows of S that cover S
WindowsCovering(file, S) ==
    /\ \A k, m \in DOMAIN file : k # m => file[k] # file[m]
    /\ \A k \in DOMAIN file : \E q \in 1..Len(S) : WindowAt(file[k], S, q)
    /\ \A pos \in 1..Len(S) :
          \E k \in DOMAIN file : \E q \in 1..pos :
              WindowAt(file[k], S, q) /\ pos <= q + Len(file[k]) - 1

\* C1: whenever a run on pairwise distinct windows of a sequence S that cover S
\* ends in DONE, the text of the one sequence left is S.
C1_Reconstruction ==
    \A S \in Targets :
        (pc = "done" /\ WindowsCovering(input, S))
            => Text(fragments, seqobjs, sequences[1]) = S

\* C2: for every sequence of the list, _length is the number of fragments
\* reached from head by following next_fragment, and tail is the last of them.
C2_LengthInvariant ==
    \A k \in DOMAIN sequences :
        /\ seqobjs[sequences[k]]._length = Len(ChainCells(fragments, seqobjs[sequences[k]]))
        /\ seqobjs[sequences[k]].tail = Last(ChainCells(fragments, seqobjs[sequences[k]]))
        /\ fragments[seqobjs[sequences[k]].tail].next_fragment = NoRef

\* the script has no statement left to run
Ended == pc \notin {"ingest", "while", "for_i", "for_j", "round_end"}

\* C3: the assemble loop terminates (it starts at most as many rounds as there
\* are fragments) and the run ends in DONE or in STUCK; a round that does not end
\* in STUCK leaves fewer sequences than it started with (i_stop + 1); the run
\* never goes back to INGESTING.
C3_Terminates ==
    /\ [](round <= Len(input))
    /\ [](Ended => Phase \in {"DONE", "STUCK"})
    /\ [][(pc = "round_end" /\ pc' = "while") => Len(sequences) < i_stop + 1]_vars
    /\ [][Phase # "INGESTING" => Phase' # "INGESTING"]_vars

\* the index pairs (i, j > i) of a list of n sequences
AllPairs(n) == {p \in (0..(n - 1)) \X (0..(n - 1)) : p[1] < p[2]}

\* C4: the run enters STUCK exactly when a round ends with as many sequences as
\* it started with (i_stop + 1, more than one); every pair (i, j > i) was then
\* examined; nothing is printed in STUCK, and what is printed is printed in DONE
\* with one sequence in the list.
C4_StuckDetection ==
    /\ [](pc = "stuck" =>
            /\ Len(sequences) > 1
            /\ Len(sequences) = i_stop + 1
            /\ attempted = AllPairs(Len(sequences))
            /\ output = << >>)
    /\ [](output # << >> => pc = "done" /\ Len(sequences) = 1)
    /\ [](pc = "done" => Len(output) = 1)
    /\ [][pc = "round_end" => (pc' = "stuck" <=> Len(sequences) = i_stop + 1)]_vars
    /\ [][pc' = "stuck" => pc = "round_end"]_vars

C4_Witness == pc = "stuck" /\ Len(sequences) > 1 /\ round > 1

\* the pair at hand is examined and merge_if_overlaps returns a sequence
MergeSucceeds ==
    /\ pc = "for_j"
    /\ j < j_stop
    /\ merge_if_overlaps(fragments, seqobjs, sequences[i + 1], sequences[j + 1]).result
           # NoRef

\* the number of places of the list that hold x
Count(list, x) == Cardinality({k \in DOMAIN list : list[k] = x})

\* C5: in MERGING the list of sequences never grows; a merge makes it one
\* shorter: the sequences other than the pair stay, in order, the merged sequence
\* is in the list once (at its end), and the sequence of the pair that was
\* appended to the other is no longer in it.
C5_MergeShrinks ==
    /\ [][Phase = "MERGING" => Len(sequences') <= Len(sequences)]_vars
    /\ [][MergeSucceeds =>
            /\ Len(sequences') = Len(sequences) - 1
            /\ Last(sequences') \in {sequences[i + 1], sequences[j + 1]}
            /\ Count(sequences', sequences[i + 1]) + Count(sequences', sequences[j + 1]) = 1
            /\ SubSeq(sequences', 1, Len(sequences') - 1)
                   = SelectSeq(sequences, LAMBDA x : x \notin {sequences[i + 1],
                                                                sequences[j + 1]})]_vars

C5_Witness == after_merge /\ Len(sequences) > 1

\* the first two fragments of Example3 as one sequence, the third as another
Example3Ingested ==
    /\ Len(sequences) = 2
    /\ ItemsOf(fragments, seqobjs, sequences[1]) = << <<Example3[1], 4>>, <<Example3[2], -1>> >>
    /\ ItemsOf(fragments, seqobjs, sequences[2]) = << <<Example3[3], -1>> >>

C7_RestartAsStated ==
    (after_merge /\ pc = "for_j" /\ j < j_stop) => (i = 0 /\ j = 1)

\* C7: a merge takes the two sequences out of the list and puts the merged one at
\* its end; the scan does not start again: the outer loop goes on in the same
\* round with the index after the one of the merge, over the list as it is now,
\* so that the first pair examined after a merge is (i, i + 1) with i - 1 the
\* outer index of a merge of this round, or (0, 1) in a new round.
C7_ScanGoesOn ==
    /\ []((after_merge /\ pc = "for_j" /\ j < j_stop) =>
            /\ j = i + 1
            /\ IF attempted = {}
               THEN i = 0
               ELSE i > 0 /\ \E p \in attempted : p[1] = i - 1)
    /\ [][MergeSucceeds =>
            /\ pc' = "for_i"
            /\ i' = i + 1
            /\ i_stop' = i_stop
            /\ round' = round
            /\ Last(sequences') \in {sequences[i + 1], sequences[j + 1]}]_vars

C7_Witness == after_merge /\ pc = "for_j" /\ j < j_stop /\ i > 0

\* a pair is examined: merge_if_overlaps is called on sequences[i], sequences[j]
ExaminesPair == pc = "for_j" /\ j < j_stop

\* the overlaps of the two boundary pairings of self and other
HeadOverlap(self, other) ==
    find_overlap(fragments[seqobjs[self].head].data, fragments[seqobjs[other].tail].data)
TailOverlap(self, other) ==
    find_overlap(fragments[seqobjs[self].tail].data, fragments[seqobjs[other].head].data)

\* what C8 says of the call self.merge_if_overlaps(other) that a step makes
MergeOutcome(self, other) ==
    IF HeadOverlap(self, other) # None
    THEN ItemsOf(fragments', seqobjs', Last(sequences'))
             = ItemsOf(fragments, seqobjs, other) \o ItemsOf(fragments, seqobjs, self)
    ELSE IF TailOverlap(self, other) # None
         THEN ItemsOf(fragments', seqobjs', Last(sequences'))
                  = ItemsOf(fragments, seqobjs, self) \o ItemsOf(fragments, seqobjs, other)
         ELSE /\ sequences' = sequences
              /\ seqobjs' = seqobjs
              /\ fragments' = fragments

\* C8: when the head of self overlaps the tail of other, the merged sequence holds
\* the fragments of other and then those of self; otherwise, when the tail of self
\* overlaps the head of other, those of self and then those of other; otherwise
\* nothing is merged and nothing changes.  Each fragment of the merged sequence has
\* the data and the offset it had.
C8_MergeOrder ==
    [][ExaminesPair => MergeOutcome(sequences[i + 1], sequences[j + 1])]_vars

\* sub is in s at the zero-based index k
OccursAt(sub, s, k) ==
    k + Len(sub) <= Len(s) /\ SubSeq(s, k + 1, k + Len(sub)) = sub

\* t is a non-empty substring of both A and B
IsCommon(t, A, B) ==
    /\ Len(t) > 0
    /\ \E k \in 0..Len(A) : OccursAt(t, A, k)
    /\ \E k \in 0..Len(B) : OccursAt(t, B, k)

\* the common substrings of A and B that no common substring is longer than
LongestCommon(A, B) ==
    {t \in Substrings(A) :
        IsCommon(t, A, B) /\ \A u \in Substrings(A) : IsCommon(u, A, B) => Len(u) <= Len(t)}

\* the zero-based index of the first place of sub in s
FirstIndex(sub, s) ==
    CHOOSE k \in 0..Len(s) : OccursAt(sub, s, k) /\ \A m \in 0..(k - 1) : ~OccursAt(sub, s, m)

\* the overlap rule for the one longest common substring S of A and B
Accepted(A, B, S, result) ==
    IF 2 * Len(S) > Len(A)
    THEN result = [my_index |-> FirstIndex(S, A), their_index |-> FirstIndex(S, B)]
    ELSE result = None

IngestStep == pc = "ingest" /\ nread < Len(input)

\* sequences[k] takes the fragment that is ingested
Accepts(k) ==
    insert_if_overlaps(fragments, seqobjs, sequences[k], input[nread + 1]).result

\* the step leaves the Sequence object q and the fragments it holds as they are
ChainUnchanged(q) ==
    /\ seqobjs'[q] = seqobjs[q]
    /\ \A k \in DOMAIN ChainCells(fragments, seqobjs[q]) :
          fragments'[ChainCells(fragments, seqobjs[q])[k]]
              = fragments[ChainCells(fragments, seqobjs[q])[k]]

\* what C10 says when sequences[k] is the first that takes the fragment
StopsAt(k) ==
    /\ sequences' = sequences
    /\ Len(seqobjs') = Len(seqobjs)
    /\ scanned' = k
    /\ \A m \in DOMAIN sequences : m # k => ChainUnchanged(sequences[m])

\* what C10 says when no sequence takes the fragment
CreatesOne ==
    /\ sequences' = Append(sequences, Len(seqobjs) + 1)
    /\ Len(seqobjs') = Len(seqobjs) + 1
    /\ scanned' = Len(sequences)
    /\ \A m \in DOMAIN sequences : ChainUnchanged(sequences[m])
    /\ seqobjs'[Len(seqobjs) + 1]._length = 1
    /\ ItemsOf(fragments', seqobjs', Len(seqobjs) + 1) = << <<input[nread + 1], -1>> >>

\* C10: an ingest calls insert_if_overlaps on the sequences in list order up to the
\* first that returns true and leaves every other sequence as it was; when none
\* returns true, it leaves them all as they were and puts one new sequence, of the
\* fragment alone with offset -1, at the end of the list.
C10_IngestFrame ==
    [][IngestStep =>
          IF \E k \in DOMAIN sequences : Accepts(k)
          THEN \A k \in DOMAIN sequences :
                  (Accepts(k) /\ \A m \in 1..(k - 1) : ~Accepts(m)) => StopsAt(k)
          ELSE CreatesOne]_vars

\* the last ingest stopped at a sequence with two sequences or more after it
C10_Witness == pc = "ingest" /\ scanned >= 1 /\ scanned + 2 <= Len(sequences)

\* the fragment `first` comes before the fragment `second` in the links of F
Precedes(F, first, second) ==
    \E k \in DOMAIN Cells(F, F[first].next_fragment) :
        Cells(F, F[first].next_fragment)[k] = second

\* the fragments the step makes (the Fragment objects the heap did not hold)
\* that the sequence q holds after the step
AddedTo(q) ==
    {c \in DOMAIN fragments' :
        /\ c > Len(fragments)
        /\ \E k \in DOMAIN ChainCells(fragments', seqobjs'[q]) :
              ChainCells(fragments', seqobjs'[q])[k] = c}

\* the fragments the sequence q held before the step
HeldBy(q) ==
    {ChainCells(fragments, seqobjs[q])[k] : k \in DOMAIN ChainCells(fragments, seqobjs[q])}

\* C11: every fragment an ingest adds to a sequence that was in the list is linked
\* before all the fragments the sequence held or after all of them, never between
\* two of them.
C11_TerminiOnly ==
    [][IngestStep =>
          \A m \in DOMAIN sequences : \A n \in AddedTo(sequences[m]) :
              \/ \A c \in HeldBy(sequences[m]) : Precedes(fragments', n, c)
              \/ \A c \in HeldBy(sequences[m]) : Precedes(fragments', c, n)]_vars

\* the number of pieces of max_width characters a string of n characters makes
PieceCount(n, max_width) == (n + max_width - 1) \div max_width

\* the length of piece k of the PieceCount pieces
PieceLen(n, max_width, k) ==
    IF k < PieceCount(n, max_width) THEN max_width
    ELSE n - (PieceCount(n, max_width) - 1) * max_width

\* piece k of `result` is piece k of `out`, and the line termination follows it
PieceAt(result, out, max_width, term, k) ==
    /\ SubSeq(result, (k - 1) * (max_width + Len(term)) + 1,
              (k - 1) * (max_width + Len(term)) + PieceLen(Len(out), max_width, k))
           = SubSeq(out, (k - 1) * max_width + 1,
                    (k - 1) * max_width + PieceLen(Len(out), max_width, k))
    /\ SubSeq(result, (k - 1) * (max_width + Len(term)) + PieceLen(Len(out), max_width, k) + 1,
              (k - 1) * (max_width + Len(term)) + PieceLen(Len(out), max_width, k) + Len(term))
           = term
    /\ PieceLen(Len(out), max_width, k) \in 1..max_width

\* `result` is `out` in pieces of max_width characters, the last one maybe
\* shorter, each followed by the line termination, and nothing else
Rechunked(result, out, max_width, term) ==
    /\ Len(result) = Len(out) + PieceCount(Len(out), max_width) * Len(term)
    /\ \A k \in 1..PieceCount(Len(out), max_width) : PieceAt(result, out, max_width, term, k)

\* C12: flatten with max_width > 0 returns the flattened string cut in pieces of
\* exactly max_width characters, but for a last piece that is not empty and not
\* longer, each piece followed by the line termination; the pieces put together
\* are the flattened string.  With max_width = 0 it returns the flattened string.
C12_FlattenChunks ==
    fl_called =>
        IF fl_width > 0
        THEN Rechunked(fl_result, fl_out, fl_width, fl_term)
        ELSE fl_result = fl_out

\* a call that made three pieces or more, the last one shorter
C12_Witness ==
    /\ fl_called
    /\ fl_width > 1
    /\ Len(fl_out) > 2 * fl_width
    /\ Len(fl_out) % fl_width # 0
    /\ Len(fl_term) = 2

\* C13: ingesting a fragment when the list of sequences is empty leaves one
\* sequence in the list, of one fragment (by _length and by its links), and its
\* text, flattened with max_width = 0, is the fragment.
C13_FirstIngest ==
    [][(IngestStep /\ nread' = nread + 1 /\ sequences = << >>) =>
          /\ Len(sequences') = 1
          /\ seqobjs'[sequences'[1]]._length = 1
          /\ Len(ChainCells(fragments', seqobjs'[sequences'[1]])) = 1
          /\ flatten(fragments', seqobjs', sequences'[1], 0, LineTermination)
                 = input[nread + 1]]_vars

\* the first fragment of a file, of more than one character, has been ingested
C13_Witness ==
    /\ pc = "ingest"
    /\ nread = 1
    /\ Len(sequences) = 1
    /\ Len(input[1]) > 1
    /\ Text(fragments, seqobjs, sequences[1]) = input[1]

\* the sequence q holds, after the step, a fragment of the given data
HoldsAfter(q, data) ==
    \E k \in DOMAIN DataOf(fragments', seqobjs', q) :
        DataOf(fragments', seqobjs', q)[k] = data

\* C14: after a fragment is ingested, a sequence of the list holds a fragment of
\* its data, reached from the head; and the sequence whose insert_if_overlaps
\* returned true for it holds a fragment of its data that the ingest made.
C14_NoFragmentLost ==
    [][IngestStep =>
          /\ \E k \in DOMAIN sequences' : HoldsAfter(sequences'[k], input[nread + 1])
          /\ \A k \in DOMAIN sequences :
                (Accepts(k) /\ \A m \in 1..(k - 1) : ~Accepts(m)) =>
                    \E n \in AddedTo(sequences[k]) :
                        fragments'[n].data = input[nread + 1]]_vars

(***************************************************************************)
(* The passes of the while loop of insert_if_overlaps.  A pass is the      *)
(* state the loop body starts in: the heaps as the passes before left      *)
(* them, the fragment `current` and the fragment `previous`.               *)
(***************************************************************************)
RECURSIVE Passes(_, _, _, _, _, _)
\* the passes after the one for `current`, which left st
PassesAfter(st, self, current, data) ==
    Passes(st.fragments, st.seqobjs, self, st.fragments[current].next_fragment,
           current, data)

\* the passes of the scan from `current` on, in order
Passes(F, Q, self, current, previous, data) ==
    IF current = NoRef
    THEN << >>
    ELSE <<[fragments |-> F, seqobjs |-> Q, current |-> current, previous |-> previous]>>
             \o PassesAfter(InsertStep(F, Q, self, current, previous, data),
                            self, current, data)

\* the passes an ingest makes on sequences[k]; it calls insert_if_overlaps on it
\* when no sequence before it took the fragment
Scans(k) == IngestStep /\ \A m \in 1..(k - 1) : ~Accepts(m)
PassesOn(k) ==
    Passes(fragments, seqobjs, sequences[k], seqobjs[sequences[k]].head, NoRef,
           input[nread + 1])

\* what find_overlap returns in the pass ps for the fragment ingested
OverlapIn(ps) == find_overlap(ps.fragments[ps.current].data, input[nread + 1])

\* the pass ps calls find_overlap and gets an overlap
Matched(ps) ==
    /\ ps.fragments[ps.current].data # input[nread + 1]
    /\ OverlapIn(ps) # None

\* what the pass ps leaves
SpliceOf(ps, q) ==
    InsertStep(ps.fragments, ps.seqobjs, q, ps.current, ps.previous, input[nread + 1])

\* the fragments that came before `current` in q when the pass ps started are
\* reached from the head of q in r
KeepsBefore(r, ps, q) ==
    \A b \in DOMAIN ChainCells(ps.fragments, ps.seqobjs[q]) :
        Precedes(ps.fragments, ChainCells(ps.fragments, ps.seqobjs[q])[b], ps.current) =>
            \E a \in DOMAIN ChainCells(r.fragments, r.seqobjs[q]) :
                ChainCells(r.fragments, r.seqobjs[q])[a]
                    = ChainCells(ps.fragments, ps.seqobjs[q])[b]

\* what C15 says of the splice r that the pass ps made: n is the new fragment
PrefixSplice(r, ps, q, n, overlap) ==
    /\ Len(r.fragments) = n
    /\ r.fragments[n] = [data |-> input[nread + 1], next_fragment |-> ps.current,
                         offset |-> overlap.their_index]
    /\ r.seqobjs[q]._length = ps.seqobjs[q]._length + 1
    /\ IF ps.current = ps.seqobjs[q].head
       THEN r.seqobjs[q].head = n
       ELSE /\ r.seqobjs[q].head = ps.seqobjs[q].head
            /\ r.fragments[ps.previous].next_fragment = n
            /\ KeepsBefore(r, ps, q)

\* C15: when find_overlap gives their_index > 0 for a fragment of the sequence,
\* the new fragment is linked right before that fragment with their_index as its
\* offset and _length goes up by one; the new fragment is the head when that
\* fragment was the head, and otherwise the head stays and the fragments before
\* the matched one stay in the sequence.
C15_PrefixExtension ==
    \A k \in DOMAIN sequences :
        Scans(k) =>
            \A a \in DOMAIN PassesOn(k) :
                (Matched(PassesOn(k)[a]) /\ OverlapIn(PassesOn(k)[a]).their_index > 0)
                    => PrefixSplice(SpliceOf(PassesOn(k)[a], sequences[k]), PassesOn(k)[a],
                                    sequences[k], Len(PassesOn(k)[a].fragments) + 1,
                                    OverlapIn(PassesOn(k)[a]))

\* what C16 says of the splice r that the pass ps made: n is the new fragment
SuffixSplice(r, ps, q, n, overlap) ==
    /\ Len(r.fragments) = n
    /\ r.fragments[n] = [data |-> input[nread + 1],
                         next_fragment |-> ps.fragments[ps.current].next_fragment,
                         offset |-> DefaultOffset]
    /\ r.fragments[ps.current] = [data |-> ps.fragments[ps.current].data,
                                  next_fragment |-> n,
                                  offset |-> overlap.my_index]
    /\ r.seqobjs[q] = [head |-> ps.seqobjs[q].head, tail |-> n,
                       _length |-> ps.seqobjs[q]._length + 1]

\* C16: when find_overlap gives their_index = 0 and my_index > 0 for a fragment of
\* the sequence, the new fragment is linked right after that fragment, whose
\* offset becomes my_index; the new fragment is the tail of the sequence and
\* _length goes up by one.  Ingesting AAABBBBB and then BBBBBCCC leaves one
\* sequence whose text is AAABBBBBCCC.
C16_SuffixExtension ==
    /\ \A k \in DOMAIN sequences :
          Scans(k) =>
              \A a \in DOMAIN PassesOn(k) :
                  (/\ Matched(PassesOn(k)[a])
                   /\ OverlapIn(PassesOn(k)[a]).their_index = 0
                   /\ OverlapIn(PassesOn(k)[a]).my_index > 0)
                      => SuffixSplice(SpliceOf(PassesOn(k)[a], sequences[k]), PassesOn(k)[a],
                                      sequences[k], Len(PassesOn(k)[a].fragments) + 1,
                                      OverlapIn(PassesOn(k)[a]))
    /\ (input = Example1 /\ nread = 2) =>
          /\ Len(sequences) = 1
          /\ Text(fragments, seqobjs, sequences[1])
                 = Rep("A", 3) \o Rep("B", 5) \o Rep("C", 3)

\* BBBBBCCC has been linked after AAABBBBB, whose offset is 3
C16_Witness ==
    /\ input = Example1
    /\ nread = 2
    /\ ItemsOf(fragments, seqobjs, sequences[1])
           = << <<Example1[1], 3>>, <<Example1[2], -1>> >>
    /\ fragments[seqobjs[sequences[1]].tail].data = Example1[2]

\* C17: when the run is in STUCK, merge_if_overlaps returns None for every two
\* sequences of the list, whichever of the two it is called on.
C17_StuckMeansNoMerge ==
    pc = "stuck" =>
        \A a, b \in DOMAIN sequences :
            a # b => merge_if_overlaps(fragments, seqobjs, sequences[a], sequences[b]).result
                         = NoRef

\* the offset of the fragment is -1 or cuts its data short by one character or more
OffsetInRange(fragment) ==
    \/ fragment.offset = DefaultOffset
    \/ (0 < fragment.offset /\ fragment.offset < Len(fragment.data))

\* C18: the offset of every Fragment object is -1 or an integer N with
\* 0 < N < len(data), never 0; flatten takes data[0:offset] of the fragments whose
\* offset is not -1 and the whole data of the others.
C18_OffsetRange ==
    \A c \in DOMAIN fragments :
        /\ OffsetInRange(fragments[c])
        /\ fragments[c].offset # 0
        /\ Contribution(fragments[c])
               = IF fragments[c].offset = DefaultOffset
                 THEN fragments[c].data
                 ELSE SubSeq(fragments[c].data, 1, fragments[c].offset)

\* the run did a merge and printed a sequence that holds a fragment whose offset
\* was set and one whose offset was not
C18_Witness ==
    /\ pc = "done"
    /\ round > 0
    /\ \E c, d \in DOMAIN ChainCells(fragments, seqobjs[sequences[1]]) :
          /\ fragments[ChainCells(fragments, seqobjs[sequences[1]])[c]].offset > 0
          /\ fragments[ChainCells(fragments, seqobjs[sequences[1]])[d]].offset = DefaultOffset

====
